---- MODULE Spec2Model ----
(***************************************************************************)
(* License server (src/server.py): a sqlite table licenses(key,            *)
(* expiry_date TEXT, hwid TEXT), the JSON mirror licenses.json, the HTTP   *)
(* /verify endpoint and the Discord admin commands /addkey, /delkey and    *)
(* /resethwid, all running on one asyncio event loop of one process.       *)
(***************************************************************************)
EXTENDS Integers, FiniteSets, TLC

VARIABLES store, mirror, now, phase, running, pc, req, row, resp, wrote, conc, last

vars == <<store, mirror, now, phase, running, pc, req, row, resp, wrote, conc, last>>

(* ------------------------------ bounds -------------------------------- *)

\* the clock runs from 0 (the epoch) to MaxNow seconds
MaxNow == 1

(* ----------------------------- constants ------------------------------ *)

\* datetime.timedelta(days=1) in seconds
DaySecs == 86400

(* ------------------------------ values -------------------------------- *)

\* the license keys explored
Keys == {"K1", "K2"}

\* HTTP clients, each with at most one /verify request in flight
Clients == {"A", "B"}

\* Python's None (and SQL NULL) in a string-valued place
None == "None"

\* device identifiers sent by clients
HWIDS == {"HW1", "HW2"}

\* the hwid argument of a call: omitted (None) or a device identifier
HwidArgs == HWIDS \cup {None}

\* Discord users who can invoke a slash command
Users == {"admin", "guest"}

\* expiry_days arguments of /addkey
DaysArgs == {0, 1}

\* Values of the expiry_date column / JSON field.  SQL NULL and Python None:
NullVal == [t |-> "null"]

\* a Python int n (a JSON number)
PyInt(n) == [t |-> "pyint", n |-> n]

\* the decimal string of n, e.g. "86400"
IntStr(n) == [t |-> "intstr", n |-> n]

\* the string "1970-01-DD" of the day d days after the epoch
DateStr(d) == [t |-> "date", d |-> d]

\* a string that is neither a number nor a date, e.g. "soon"
JunkStr == [t |-> "junk"]

\* a decimal string outside datetime's year range, e.g. "999999999999999"
BigStr == [t |-> "bigstr"]

\* the result of parse_expiry_any: an epoch-seconds int, or None
Some(n) == [some |-> TRUE, ts |-> n]

NoExpiry == [some |-> FALSE]

\* fetchone() found no row
NoRow == [absent |-> TRUE]

Row(e, h) == [expiry_date |-> e, hwid |-> h]

\* a client's local `row` before its handler has read
Unread == [unread |-> TRUE]

\* no coroutine holds the event loop
NoTask == "none"

\* the mirror file licenses.json: absent, a JSON object keyed by license key,
\* a JSON array (the legacy shape), or text that json.load rejects
MissingFile == [kind |-> "missing"]

DictFile(d) == [kind |-> "dict", data |-> d]

ListFile == [kind |-> "list"]

BadFile == [kind |-> "bad"]

\* no command has replied yet
NoLast == [op |-> "none"]

(* ------------------------------ helpers ------------------------------- *)

\* Python truthiness of an Optional[str]
Truthy(h) == h # None /\ h # ""

\* parse_expiry_any(val)[0]: the timestamp of a stored expiry_date, or None
parse_expiry_any(val) ==
    CASE val.t = "null"   -> NoExpiry
      [] val.t = "empty"  -> NoExpiry
      [] val.t = "pyint"  -> Some(val.n)
      [] val.t = "intstr" -> Some(val.n)
      [] val.t = "bigstr" -> NoExpiry
      [] val.t = "date"   -> Some(val.d * DaySecs)
      [] OTHER            -> NoExpiry

\* a value bound to the TEXT column expiry_date: an int becomes its decimal text
sqlite_text(v) == IF v.t = "pyint" THEN IntStr(v.n) ELSE v

\* str(expiry_ts)
str(n) == IntStr(n)

\* a lookup that answers an empty record for a missing key
fetchone_default(db, key) ==
    IF db[key] = NoRow THEN Row(NullVal, None) ELSE db[key]

\* SELECT expiry_date, hwid FROM licenses WHERE key=?  (fetchone)
fetchone(db, key) == db[key]

\* expiry_any is not None and expiry_any < now_ts
IsExpired(r, now_ts) ==
    LET expiry_any == parse_expiry_any(r.expiry_date)
    IN  expiry_any.some /\ expiry_any.ts < now_ts

\* the mismatch test left out
IsMismatch_Never(saved_hwid, hwid) == FALSE

\* saved_hwid and hwid and saved_hwid != hwid
IsMismatch(saved_hwid, hwid) ==
    Truthy(saved_hwid) /\ Truthy(hwid) /\ saved_hwid # hwid

\* the bind step without its `not saved_hwid` test
IsFirstUse_Always(saved_hwid, hwid) == Truthy(hwid)

\* not saved_hwid and hwid
IsFirstUse(saved_hwid, hwid) == ~Truthy(saved_hwid) /\ Truthy(hwid)

\* the hwid test placed before the expiry test
verify_reason_hwid_first(r, hwid, now_ts) ==
    IF r = NoRow THEN "not_found"
    ELSE IF Truthy(r.hwid) /\ Truthy(hwid) /\ r.hwid # hwid THEN "hwid_mismatch"
    ELSE IF parse_expiry_any(r.expiry_date).some
            /\ parse_expiry_any(r.expiry_date).ts < now_ts THEN "expired"
    ELSE "ok"

\* the "reason" of verify's answer for the row it read; "ok" is {"ok": True}
verify_reason(r, hwid, now_ts) ==
    IF r = NoRow THEN "not_found"
    ELSE IF IsExpired(r, now_ts) THEN "expired"
    ELSE IF IsMismatch(r.hwid, hwid) THEN "hwid_mismatch"
    ELSE "ok"

\* verify reaches its UPDATE statement
verify_binds(r, hwid, now_ts) ==
    /\ verify_reason(r, hwid, now_ts) = "ok"
    /\ IsFirstUse(r.hwid, hwid)

\* a write that is never committed
update_hwid_uncommitted(db, key, hwid) == db

\* UPDATE licenses SET hwid=? without its WHERE clause
update_hwid_all(db, key, hwid) ==
    [k \in Keys |-> IF db[k] = NoRow THEN NoRow ELSE Row(db[k].expiry_date, hwid)]

\* UPDATE licenses SET hwid=? WHERE key=?
update_hwid(db, key, hwid) ==
    IF db[key] = NoRow THEN db
    ELSE [db EXCEPT ![key] = Row(db[key].expiry_date, hwid)]

\* an upsert that keeps the hwid of an existing row
insert_keep_hwid(db, key, expiry, hwid) ==
    [db EXCEPT ![key] =
        Row(sqlite_text(expiry), IF db[key] = NoRow THEN hwid ELSE db[key].hwid)]

\* INSERT OR REPLACE INTO licenses (key, expiry_date, hwid) VALUES (?, ?, ?)
insert_or_replace(db, key, expiry, hwid) ==
    [db EXCEPT ![key] = Row(sqlite_text(expiry), hwid)]

\* DELETE FROM licenses WHERE key=?
delete_key(db, key) == [db EXCEPT ![key] = NoRow]

\* json.load succeeds and data.items() exists
import_readable(m) == m.kind \in {"missing", "dict"}

\* import_json_to_db: the table after the loop over data.items()
import_json_to_db(db, m) ==
    IF m.kind # "dict" THEN db
    ELSE [k \in Keys |->
            IF m.data[k] = NoRow THEN db[k]
            ELSE insert_or_replace(db, k, m.data[k].expiry_date, m.data[k].hwid)[k]]

\* export_db_to_json: the file after the call.  outcome "ok": the dump of all
\* rows; "db_error": the SELECT raised, nothing written; "partial": the file was
\* opened for writing (truncated) and the dump did not complete
export_db_to_json(db, m, outcome) ==
    CASE outcome = "ok"       -> DictFile(db)
      [] outcome = "db_error" -> m
      [] OTHER                -> BadFile

ExportOutcomes == {"ok", "db_error", "partial"}

\* an export whose failure reaches the command that called it
export_raises_unhandled(outcome) == outcome # "ok"

\* export_db_to_json raises to its caller: never, its except Exception logs
\* the failure and returns
export_raises(outcome) == FALSE

\* an exception handler that grants access
on_exception_open == "ok"

\* verify's except Exception: return {"ok": False, "reason": "server_error"}
on_exception == "server_error"

\* a handler that yields the loop between its SELECT and its UPDATE
LoopFree_Await == TRUE

\* run-to-completion: a handler starts only when no coroutine holds the loop
\* (verify and the commands have no await before their last store access)
LoopFree == running = NoTask

(* ------------------------------- state -------------------------------- *)

\* a JSON object with the one entry "K1": {"expiry_date": e, "hwid": h}
OneEntry(e, h) == DictFile([k \in Keys |-> IF k = "K1" THEN Row(e, h) ELSE NoRow])

\* licenses.json as deployed with the program before its first start
InitMirrors ==
    { MissingFile, ListFile,
      OneEntry(DateStr(0), None),
      OneEntry(PyInt(1), "HW2"),
      OneEntry(JunkStr, None),
      OneEntry(BigStr, "HW1") }

\* every client is idle and holds no answer
ClientsReset ==
    /\ running' = NoTask
    /\ pc' = [c \in Clients |-> "idle"]
    /\ req' = [c \in Clients |-> [key |-> "K1", hwid |-> None]]
    /\ row' = [c \in Clients |-> Unread]
    /\ resp' = [c \in Clients |-> "none"]
    /\ wrote' = [c \in Clients |-> FALSE]
    /\ conc' = [c \in Clients |-> {}]

\* before main() runs for the first time: licenses.db does not exist
Init ==
    /\ store = [k \in Keys |-> NoRow]
    /\ mirror \in InitMirrors
    /\ now = 0
    /\ phase = "boot"
    /\ running = NoTask
    /\ pc = [c \in Clients |-> "idle"]
    /\ req = [c \in Clients |-> [key |-> "K1", hwid |-> None]]
    /\ row = [c \in Clients |-> Unread]
    /\ resp = [c \in Clients |-> "none"]
    /\ wrote = [c \in Clients |-> FALSE]
    /\ conc = [c \in Clients |-> {}]
    /\ last = NoLast

clientVars == <<running, pc, req, row, resp, wrote, conc>>

(* ------------------------------ startup ------------------------------- *)

\* main(): init_db(), import_json_to_db(), then the bot and the API are served.
\* An exception of import_json_to_db propagates out of main and ends the process.
Startup ==
    /\ phase = "boot"
    /\ IF import_readable(mirror)
       THEN /\ store' = import_json_to_db(store, mirror)
            /\ phase' = "serving"
       ELSE /\ store' = store
            /\ phase' = "crashed"
    /\ last' = [op |-> "import"]
    /\ UNCHANGED <<mirror, now, clientVars>>

\* the process is stopped (crash, redeploy); requests in flight are dropped and
\* the next start runs main() again on the same licenses.db and licenses.json
Kill ==
    /\ phase \in {"serving", "crashed"}
    /\ phase' = "boot"
    /\ ClientsReset
    /\ last' = [op |-> "kill"]
    /\ UNCHANGED <<store, mirror, now>>

\* the wall clock advances
Tick ==
    /\ now < MaxNow
    /\ now' = now + 1
    /\ UNCHANGED <<store, mirror, phase, clientVars, last>>

(* ------------------------------- verify ------------------------------- *)

\* GET /verify?key=..&hwid=.. is accepted; its coroutine is scheduled
VerifyArrive(c, key, hwid) ==
    /\ phase = "serving"
    /\ pc[c] = "idle"
    /\ pc' = [pc EXCEPT ![c] = "pending"]
    /\ req' = [req EXCEPT ![c] = [key |-> key, hwid |-> hwid]]
    /\ row' = [row EXCEPT ![c] = Unread]
    /\ resp' = [resp EXCEPT ![c] = "none"]
    /\ wrote' = [wrote EXCEPT ![c] = FALSE]
    /\ conc' = [conc EXCEPT ![c] = {}]
    /\ UNCHANGED <<store, mirror, now, phase, running, last>>

\* verify, the SELECT: the coroutine takes the loop and reads its row
VerifyRead(c) ==
    /\ phase = "serving"
    /\ pc[c] = "pending"
    /\ LoopFree
    /\ running' = c
    /\ pc' = [pc EXCEPT ![c] = "running"]
    /\ row' = [row EXCEPT ![c] = fetchone(store, req[c].key)]
    /\ conc' = [conc EXCEPT ![c] = {d \in Clients \ {c} : pc[d] \in {"pending", "running"}}]
    /\ UNCHANGED <<store, mirror, now, phase, req, resp, wrote, last>>

\* verify, the SELECT raises: except Exception answers server_error
VerifyReadFail(c) ==
    /\ phase = "serving"
    /\ pc[c] = "pending"
    /\ LoopFree
    /\ pc' = [pc EXCEPT ![c] = "idle"]
    /\ resp' = [resp EXCEPT ![c] = on_exception]
    /\ conc' = [conc EXCEPT ![c] = {}]
    /\ UNCHANGED <<store, mirror, now, phase, running, req, row, wrote, last>>

\* verify, from the row to the answer, the first-use UPDATE included
VerifyFinish(c) ==
    /\ phase = "serving"
    /\ pc[c] = "running"
    /\ LET r == row[c]
           hwid == req[c].hwid
           binds == verify_binds(r, hwid, now)
       IN  /\ resp' = [resp EXCEPT ![c] = verify_reason(r, hwid, now)]
           /\ wrote' = [wrote EXCEPT ![c] = binds]
           /\ store' = IF binds THEN update_hwid(store, req[c].key, hwid) ELSE store
    /\ pc' = [pc EXCEPT ![c] = "idle"]
    /\ row' = [row EXCEPT ![c] = Unread]
    /\ running' = IF running = c THEN NoTask ELSE running
    /\ UNCHANGED <<mirror, now, phase, req, conc, last>>

\* verify, the UPDATE raises: except Exception answers server_error (the row
\* read stays in `row` until the client's next request)
VerifyWriteFail(c) ==
    /\ phase = "serving"
    /\ pc[c] = "running"
    /\ verify_binds(row[c], req[c].hwid, now)
    /\ resp' = [resp EXCEPT ![c] = on_exception]
    /\ pc' = [pc EXCEPT ![c] = "idle"]
    /\ running' = IF running = c THEN NoTask ELSE running
    /\ conc' = [conc EXCEPT ![c] = {}]
    /\ UNCHANGED <<store, mirror, now, phase, req, row, wrote, last>>

(* --------------------------- admin commands --------------------------- *)

\* what a command leaves in `last`: its name, the invoking user, the key, the
\* hwid the key had before the command (Absent: no such row) and the message
\* sent back
Absent == "absent"

Reply(op, user, key, out) ==
    [op |-> op, caller |-> user, key |-> key,
     pre |-> IF store[key] = NoRow THEN Absent ELSE store[key].hwid,
     out |-> out]

\* /addkey key expiry_days hwid: INSERT OR REPLACE, then export_db_to_json
addkey(user, key, expiry_days, hwid, outcome) ==
    /\ phase = "serving"
    /\ LoopFree
    /\ LET expiry_ts == now + expiry_days * DaySecs
       IN  store' = insert_or_replace(store, key, str(expiry_ts), hwid)
    /\ mirror' = export_db_to_json(store', mirror, outcome)
    /\ last' = Reply("addkey", user, key,
                      IF export_raises(outcome) THEN "failed" ELSE "added")
    /\ conc' = [c \in Clients |-> {}]
    /\ UNCHANGED <<now, phase, running, pc, req, row, resp, wrote>>

\* /addkey whose store write (or whose date arithmetic) raises
addkey_fail(user, key) ==
    /\ phase = "serving"
    /\ LoopFree
    /\ last' = Reply("addkey", user, key, "failed")
    /\ UNCHANGED <<store, mirror, now, phase, clientVars>>

\* /delkey key: SELECT, then DELETE and export_db_to_json if the key exists
delkey(user, key, outcome) ==
    /\ phase = "serving"
    /\ LoopFree
    /\ IF fetchone(store, key) # NoRow
       THEN /\ store' = delete_key(store, key)
            /\ mirror' = export_db_to_json(store', mirror, outcome)
            /\ last' = Reply("delkey", user, key,
                              IF export_raises(outcome) THEN "failed" ELSE "deleted")
       ELSE /\ outcome = "ok"
            /\ UNCHANGED <<store, mirror>>
            /\ last' = Reply("delkey", user, key, "not_found")
    /\ conc' = [c \in Clients |-> {}]
    /\ UNCHANGED <<now, phase, running, pc, req, row, resp, wrote>>

\* /delkey whose store access raises
delkey_fail(user, key) ==
    /\ phase = "serving"
    /\ LoopFree
    /\ last' = Reply("delkey", user, key, "failed")
    /\ UNCHANGED <<store, mirror, now, phase, clientVars>>

\* /resethwid key: UPDATE .. SET hwid=NULL, then export_db_to_json
resethwid(user, key, outcome) ==
    /\ phase = "serving"
    /\ LoopFree
    /\ store' = update_hwid(store, key, None)
    /\ mirror' = export_db_to_json(store', mirror, outcome)
    /\ last' = Reply("resethwid", user, key,
                      IF export_raises(outcome) THEN "failed" ELSE "reset")
    /\ conc' = [c \in Clients |-> {}]
    /\ UNCHANGED <<now, phase, running, pc, req, row, resp, wrote>>

\* /resethwid whose store write raises
resethwid_fail(user, key) ==
    /\ phase = "serving"
    /\ LoopFree
    /\ last' = Reply("resethwid", user, key, "failed")
    /\ UNCHANGED <<store, mirror, now, phase, clientVars>>

(* --------------------------- specification ---------------------------- *)

\* the steps of the program with verify clients CS, command users US, export
\* outcomes OS, keys KS named in requests and commands and expiry_days DS
NextOf(CS, US, OS, KS, DS) ==
    \/ Startup
    \/ Kill
    \/ Tick
    \/ \E c \in CS, key \in KS, hwid \in HwidArgs : VerifyArrive(c, key, hwid)
    \/ \E c \in CS : VerifyRead(c)
    \/ \E c \in CS : VerifyReadFail(c)
    \/ \E c \in CS : VerifyFinish(c)
    \/ \E c \in CS : VerifyWriteFail(c)
    \/ \E user \in US, key \in KS, expiry_days \in DS,
          hwid \in HwidArgs, outcome \in OS :
            addkey(user, key, expiry_days, hwid, outcome)
    \/ \E user \in US, key \in KS : addkey_fail(user, key)
    \/ \E user \in US, key \in KS, outcome \in OS : delkey(user, key, outcome)
    \/ \E user \in US, key \in KS : delkey_fail(user, key)
    \/ \E user \in US, key \in KS, outcome \in OS : resethwid(user, key, outcome)
    \/ \E user \in US, key \in KS : resethwid_fail(user, key)

\* one verify request at a time, the administrator's commands on one key,
\* every export outcome
Next == NextOf({"A"}, {"admin"}, ExportOutcomes, {"K1"}, DaysArgs)

Spec == Init /\ [][Next]_vars

\* every client's verify request in flight at once, commands whose export succeeds
NextRace == NextOf(Clients, {"admin"}, {"ok"}, {"K1"}, DaysArgs)

SpecRace == Init /\ [][NextRace]_vars

\* one verify request at a time, commands of every user, exports that succeed
NextUsers == NextOf({"A"}, Users, {"ok"}, {"K1"}, DaysArgs)

SpecUsers == Init /\ [][NextUsers]_vars

\* one verify request at a time, the administrator's commands, exports that
\* succeed, requests and commands on every key, keys that expire at once
NextKeys == NextOf({"A"}, {"admin"}, {"ok"}, Keys, {0})

SpecKeys == Init /\ [][NextKeys]_vars

\* one verify request at a time, the administrator's commands on one key with
\* keys that expire at once, every export outcome
NextExport == NextOf({"A"}, {"admin"}, ExportOutcomes, {"K1"}, {0})

SpecExport == Init /\ [][NextExport]_vars

\* what the event loop guarantees: a process that is started runs main() up to
\* serving, and a /verify coroutine that was scheduled runs to its answer (its
\* failing branches included); nothing obliges the clock, a client or an
\* administrator to act, and no task of main() calls export_db_to_json
Fairness ==
    /\ WF_vars(Startup)
    /\ WF_vars(VerifyRead("A") \/ VerifyReadFail("A"))
    /\ WF_vars(VerifyFinish("A") \/ VerifyWriteFail("A"))

SpecFair == Init /\ [][NextUsers]_vars /\ Fairness

(* ----------------------------- properties ----------------------------- *)

\* the statuses of the verification interface, as the answers of /verify
Valid == "ok"

Invalid == "not_found"

\* the administrators a deployment would configure
AdminSet == {"admin"}

AdminOps == {"addkey", "delkey", "resethwid"}

\* the timestamp a row expires at, or None
ExpiryOf(r) == parse_expiry_any(r.expiry_date)

\* the row exists and its expiry is strictly earlier than t
PastExpiry(r, t) == r # NoRow /\ ExpiryOf(r).some /\ ExpiryOf(r).ts < t

\* the row exists and is not expired at t
Live(r, t) == r # NoRow /\ ~(ExpiryOf(r).some /\ ExpiryOf(r).ts < t)

\* this step is client c's verify handler returning its answer
Answers(c) == pc[c] = "running" /\ pc'[c] = "idle" /\ phase' = "serving"

\* C1 (race safety of first-use binding).  Two verify requests for the same
\* existing, unexpired, unbound key with different hwids that were in flight
\* together (d was already accepted when c's handler read the row, c issued
\* the bind, no store access failed and no command ran since): c is answered
\* valid, d is answered hwid_mismatch, d wrote nothing and the stored hwid is
\* c's; both are never answered valid.
C1_RaceSafety ==
    \A c \in Clients, d \in Clients :
        ( /\ c # d
          /\ d \in conc[c]
          /\ wrote[c]
          /\ pc[c] = "idle" /\ pc[d] = "idle"
          /\ req[c].key = req[d].key
          /\ req[d].hwid # None
          /\ req[d].hwid # req[c].hwid
          /\ resp[d] # "server_error"
          /\ Live(store[req[c].key], now) )
        => ( /\ resp[c] = Valid
             /\ resp[d] = "hwid_mismatch"
             /\ ~wrote[d]
             /\ store[req[c].key].hwid = req[c].hwid )

\* a race decided: c bound the key while d's request waited, d was refused
C1_Witness ==
    \E c \in Clients, d \in Clients :
        /\ c # d
        /\ d \in conc[c]
        /\ wrote[c]
        /\ pc[c] = "idle" /\ pc[d] = "idle"
        /\ req[c].key = req[d].key
        /\ req[d].hwid # None
        /\ req[d].hwid # req[c].hwid
        /\ Live(store[req[c].key], now)
        /\ resp[c] = Valid
        /\ resp[d] = "hwid_mismatch"
        /\ store[req[c].key].hwid = req[c].hwid

\* C2 (hwid transitions).  A stored non-null hwid is changed (to null, to
\* another value, or with its row) only by an admin command: never by a step of
\* verify and never by the import of the mirror at startup.
C2_HwidTransitions ==
    [][ \A k \in Keys :
          ( /\ store[k] # NoRow
            /\ store[k].hwid # None
            /\ (store'[k] = NoRow \/ store'[k].hwid # store[k].hwid) )
          => ( /\ phase = "serving"
               /\ pc' = pc ) ]_vars

\* C3 (reconciliation precedence).  The import at startup leaves the record of
\* every key that is both in the store and in the mirror document unchanged.
C3_StoreWins ==
    [][ (phase = "boot" /\ phase' = "serving" /\ mirror.kind = "dict")
        => \A k \in Keys :
             (store[k] # NoRow /\ mirror.data[k] # NoRow) => store'[k] = store[k] ]_vars

\* C4 (mismatch is stable).  verify(key, H2) on an unexpired key bound to
\* H1 # H2 answers hwid_mismatch and leaves the stored record as it was.
C4_MismatchStable ==
    [][ \A c \in Clients :
          ( /\ Answers(c)
            /\ Live(store[req[c].key], now)
            /\ store[req[c].key].hwid # None
            /\ req[c].hwid # None
            /\ req[c].hwid # store[req[c].key].hwid )
          => ( /\ resp'[c] = "hwid_mismatch"
               /\ store' = store ) ]_vars

\* a client refused for its hwid, the key still bound to the other hwid
C4_Witness ==
    \E c \in Clients :
        /\ pc[c] = "idle"
        /\ resp[c] = "hwid_mismatch"
        /\ Live(store[req[c].key], now)
        /\ store[req[c].key].hwid \in HWIDS \ {req[c].hwid}

\* C5 (binding is idempotent).  verify(key, H) on an unexpired key already
\* bound to H answers valid, issues no UPDATE and leaves the store as it was.
C5_BindIdempotent ==
    [][ \A c \in Clients :
          ( /\ Answers(c)
            /\ Live(store[req[c].key], now)
            /\ req[c].hwid # None
            /\ store[req[c].key].hwid = req[c].hwid )
          => ( /\ resp'[c] = Valid
               /\ ~wrote'[c]
               /\ store' = store ) ]_vars

\* a client answered valid for the hwid the key was already bound to
C5_Witness ==
    \E c \in Clients :
        /\ pc[c] = "idle"
        /\ resp[c] = Valid
        /\ ~wrote[c]
        /\ req[c].hwid # None
        /\ Live(store[req[c].key], now)
        /\ store[req[c].key].hwid = req[c].hwid

\* C6 (expired keys).  verify on a key whose expiry is strictly earlier than
\* the current time answers expired whatever the hwid argument and the stored
\* hwid are.
C6_ExpiredAlways ==
    [][ \A c \in Clients :
          ( /\ Answers(c)
            /\ PastExpiry(store[req[c].key], now) )
          => resp'[c] = "expired" ]_vars

\* a client with a foreign hwid answered expired, not hwid_mismatch
C6_Witness ==
    \E c \in Clients :
        /\ pc[c] = "idle"
        /\ resp[c] = "expired"
        /\ PastExpiry(store[req[c].key], now)
        /\ req[c].hwid # None
        /\ store[req[c].key].hwid \in HWIDS \ {req[c].hwid}

\* C7 (absent keys).  verify on a key with no record answers invalid and
\* leaves the store as it was: no record is created.
C7_AbsentInvalid ==
    [][ \A c \in Clients :
          ( /\ Answers(c)
            /\ store[req[c].key] = NoRow )
          => ( /\ resp'[c] = Invalid
               /\ store' = store ) ]_vars

\* a client that supplied a hwid answered invalid, the key still absent
C7_Witness ==
    \E c \in Clients :
        /\ pc[c] = "idle"
        /\ resp[c] = Invalid
        /\ req[c].hwid # None
        /\ store[req[c].key] = NoRow

\* C8 (authorization gate).  A command invoked by a user outside the admin
\* set is answered Unauthorized and leaves the store as it was.
C8_AuthGate ==
    [][ ( /\ last' # last
          /\ last'.op \in AdminOps
          /\ last'.caller \notin AdminSet )
        => ( /\ last'.out = "Unauthorized"
             /\ store' = store ) ]_vars

C10_ReissueUnbinds ==
    [][ (last'.op = "addkey" /\ last'.out = "added")
        => \A user \in {last'.caller}, key \in {last'.key}, d \in DaysArgs,
              o \in ExportOutcomes :
          addkey(user, key, d, None, o)
          => ( /\ store'[key] # NoRow
               /\ ExpiryOf(store'[key]) = Some(now + d * DaySecs)
               /\ store'[key].hwid = None ) ]_vars

\* an addkey without hwid just answered for a key that was bound before it
C10_Witness ==
    /\ last.op = "addkey"
    /\ last.out = "added"
    /\ last.pre \in HWIDS
    /\ store[last.key] # NoRow
    /\ store[last.key].hwid = None

\* C11 (reset then rebind).  resethwid of a key sets the hwid of its record
\* to null and keeps its expiry, and leaves the store as it was when the key is
\* already unbound or has no record; the next verify of the key with a hwid,
\* the key unexpired, answers valid and leaves the key bound to that hwid.
C11_ResetThenRebind ==
    [][ /\ (last'.op = "resethwid" /\ last'.out = "reset")
           => \A key \in {last'.key} :
                (\E o \in ExportOutcomes : resethwid(last'.caller, key, o))
                => ( /\ \A k \in Keys \ {key} : store'[k] = store[k]
                     /\ store[key] = NoRow => store' = store
                     /\ store[key] # NoRow =>
                           /\ store'[key] = Row(store[key].expiry_date, None)
                           /\ store[key].hwid = None => store' = store )
        /\ \A c \in Clients :
              ( /\ Answers(c)
                /\ last.op = "resethwid" /\ last.out = "reset"
                /\ last.key = req[c].key
                /\ Live(store[req[c].key], now)
                /\ store[req[c].key].hwid = None
                /\ req[c].hwid # None
                /\ resp'[c] # "server_error" )
              => ( /\ resp'[c] = Valid
                   /\ store'[req[c].key] =
                        Row(store[req[c].key].expiry_date, req[c].hwid) ) ]_vars

\* a key bound to one hwid was reset and then verified valid with another
C11_Witness ==
    /\ last.op = "resethwid"
    /\ last.out = "reset"
    /\ last.pre \in HWIDS
    /\ \E c \in Clients :
          /\ pc[c] = "idle"
          /\ resp[c] = Valid
          /\ wrote[c]
          /\ req[c].key = last.key
          /\ req[c].hwid \in HWIDS \ {last.pre}
          /\ store[last.key] # NoRow
          /\ store[last.key].hwid = req[c].hwid

\* C12 (reconciliation completeness).  For every key of the mirror that has no
\* record in the store, the startup import inserts a record with the mirror's
\* hwid whose stored expiry is the epoch-seconds form of the mirror's
\* expiry_date (null for a null expiry_date).
C12_ImportNormalizes ==
    [][ (phase = "boot" /\ phase' = "serving" /\ mirror.kind = "dict")
        => \A k \in Keys :
             (store[k] = NoRow /\ mirror.data[k] # NoRow)
             => ( /\ store'[k] # NoRow
                  /\ store'[k].hwid = mirror.data[k].hwid
                  /\ mirror.data[k].expiry_date = NullVal
                       => store'[k].expiry_date = NullVal
                  /\ parse_expiry_any(mirror.data[k].expiry_date).some
                       => store'[k].expiry_date =
                            IntStr(parse_expiry_any(mirror.data[k].expiry_date).ts) ) ]_vars

\* C13 (canonical stored expiry).  In every reachable state the expiry of every
\* stored record is null or the decimal text of an epoch-seconds integer.
C13_CanonicalStored ==
    \A k \in Keys :
        store[k] = NoRow \/ store[k].expiry_date.t \in {"null", "intstr", "bigstr"}

\* C14 (export failure does not fail a mutation).  When the store write of
\* addkey, delkey or resethwid succeeds and the export that follows fails
\* (licenses.json is left as it was, or is not the dump of the store), the
\* store keeps the mutation and the command answers success.
C14_ExportFailureKept ==
    [][ ( /\ last'.op \in AdminOps /\ phase = "serving" /\ pc' = pc /\ now' = now
          /\ (mirror' = mirror \/ mirror' # DictFile(store')) )
        => \A user \in {last'.caller}, key \in {last'.key},
              o \in ExportOutcomes \ {"ok"} :
             /\ last'.op = "addkey" =>
                   \A d \in DaysArgs, h \in HwidArgs :
                     addkey(user, key, d, h, o)
                     => ( /\ last'.out = "added"
                          /\ store'[key] # NoRow
                          /\ store'[key].hwid = h
                          /\ ExpiryOf(store'[key]) = Some(now + d * DaySecs) )
             /\ last'.op = "delkey" =>
                   ( delkey(user, key, o)
                     => ( /\ last'.out = "deleted"
                          /\ store[key] # NoRow
                          /\ store'[key] = NoRow ) )
             /\ last'.op = "resethwid" =>
                   ( resethwid(user, key, o)
                     => ( /\ last'.out = "reset"
                          /\ store[key] # NoRow
                               => store'[key] = Row(store[key].expiry_date, None) ) ) ]_vars

\* addkey answered success and its row is stored while its export left a
\* truncated licenses.json
C14_Witness ==
    /\ last.op = "addkey"
    /\ last.out = "added"
    /\ mirror = BadFile
    /\ store[last.key] # NoRow

\* C15 (import failure at startup).  Whatever licenses.json holds, startup
\* reaches the state where verify is served, and with no licenses.json the
\* import leaves the store as it was.
C15_StartupAlwaysServes ==
    [][ (phase = "boot" /\ phase' # "boot")
        => ( /\ phase' = "serving"
             /\ mirror = MissingFile => store' = store ) ]_vars

\* C16 (expiry boundary).  verify of a record whose expiry E is not null
\* answers expired whenever now >= E, the instant now = E included.
C16_ExpiredAtBoundary ==
    [][ \A c \in Clients :
          ( /\ Answers(c)
            /\ resp'[c] # "server_error"
            /\ store[req[c].key] # NoRow
            /\ ExpiryOf(store[req[c].key]).some
            /\ now >= ExpiryOf(store[req[c].key]).ts )
          => resp'[c] = "expired" ]_vars

\* C17 (an expired key is never bound).  verify with a hwid of a record that
\* is expired (now >= its expiry) and unbound answers expired, leaves the
\* store as it was and makes no write.
C17_ExpiredNeverBound ==
    [][ \A c \in Clients :
          ( /\ Answers(c)
            /\ store[req[c].key] # NoRow
            /\ ExpiryOf(store[req[c].key]).some
            /\ now >= ExpiryOf(store[req[c].key]).ts
            /\ store[req[c].key].hwid = None
            /\ req[c].hwid # None )
          => ( /\ store' = store
               /\ ~wrote'[c]
               /\ resp'[c] \in {"expired", "server_error"} ) ]_vars

\* C18 (verify is read-only except for the bind).  No step of a verify handler
\* creates or deletes a record or changes an expiry; the only write is the
\* hwid of the queried key, set from null to the request's hwid as the handler
\* answers, and a key with no record stays absent.
C18_VerifyFrame ==
    [][ (pc' # pc)
        => \A k \in Keys :
             /\ store[k] = NoRow => store'[k] = NoRow
             /\ store[k] # NoRow =>
                   /\ store'[k] # NoRow
                   /\ store'[k].expiry_date = store[k].expiry_date
                   /\ \/ store'[k].hwid = store[k].hwid
                      \/ \E c \in Clients :
                           /\ Answers(c)
                           /\ req[c].key = k
                           /\ store[k].hwid = None
                           /\ store'[k].hwid = req[c].hwid ]_vars

\* a verify just bound the key it asked about while the other key has a record
\* with another hwid
C18_Witness ==
    \E c \in Clients, k \in Keys :
        /\ pc[c] = "idle"
        /\ resp[c] = Valid
        /\ wrote[c]
        /\ k # req[c].key
        /\ store[req[c].key] # NoRow
        /\ store[req[c].key].hwid = req[c].hwid
        /\ store[k] # NoRow
        /\ store[k].hwid # req[c].hwid

\* C19 (periodic export).  Every hwid the store holds is eventually in
\* licenses.json, without any further command: a binding the mirror lacks leads
\* to a mirror that has it, unless the store drops the binding first.
C19_EventuallyMirrored ==
    \A k \in {"K1"}, h \in HWIDS :
        ( /\ phase = "serving"
          /\ store[k] # NoRow
          /\ store[k].hwid = h
          /\ ~( /\ mirror.kind = "dict"
                /\ mirror.data[k] # NoRow
                /\ mirror.data[k].hwid = h ) )
        ~> ( \/ store[k] = NoRow
             \/ store[k].hwid # h
             \/ ( /\ mirror.kind = "dict"
                  /\ mirror.data[k] # NoRow
                  /\ mirror.data[k].hwid = h ) )

\* C20 (atomic export).  After every step licenses.json is the document it
\* was before the step or the complete dump of the store after the step.
C20_AtomicExport ==
    [][ mirror' \in {mirror, DictFile(store')} ]_vars

====
